---- MODULE Spec2Model ----
(***************************************************************************)
(* go-exiframe: the metadata extraction of getExif (src/main.go).          *)
(*                                                                         *)
(* Strings are sequences of one-character strings, so that splitting,      *)
(* parsing and formatting are computed character by character, as the Go   *)
(* library routines the code calls compute them.                           *)
(***************************************************************************)
EXTENDS Integers, Sequences, FiniteSets, TLC

(***************************************************************************)
(* Characters and strings                                                  *)
(***************************************************************************)
DigitChars == <<"0", "1", "2", "3", "4", "5", "6", "7", "8", "9">>

IsDigit(c) == \E i \in 1..10 : DigitChars[i] = c

DigitVal(c) == (CHOOSE i \in 1..10 : DigitChars[i] = c) - 1

AllDigits(s) == \A i \in 1..Len(s) : IsDigit(s[i])

Drop(s, k) == SubSeq(s, k + 1, Len(s))

Take(s, k) == SubSeq(s, 1, k)

\* strings.Contains(value, sep) for a one-character sep
Contains(s, c) == \E i \in 1..Len(s) : s[i] = c

\* strings.Split(value, sep) for a one-character sep: the parts between the
\* occurrences of sep, empty parts kept
RECURSIVE Split(_, _)
Split(s, c) ==
    IF ~Contains(s, c) THEN <<s>>
    ELSE LET i == CHOOSE k \in 1..Len(s) : s[k] = c /\ \A j \in 1..(k - 1) : s[j] # c
         IN  <<Take(s, i - 1)>> \o Split(Drop(s, i), c)

\* the value of a string of decimal digits
RECURSIVE DecVal(_)
DecVal(s) ==
    IF Len(s) = 0 THEN 0
    ELSE 10 * DecVal(Take(s, Len(s) - 1)) + DigitVal(s[Len(s)])

RECURSIVE StripZeros(_)
StripZeros(s) ==
    IF Len(s) > 0 /\ s[1] = "0" THEN StripZeros(Tail(s)) ELSE s

\* decimal digits of a natural number below 10^9
NatStr(n) ==
    LET len == CHOOSE k \in 1..9 : n < 10^k /\ (k = 1 \/ n >= 10^(k - 1))
    IN  [i \in 1..len |-> DigitChars[((n \div 10^(len - i)) % 10) + 1]]

\* n in decimal, padded with zeros on the left to width w (time.appendInt)
PadInt(n, w) ==
    LET s == NatStr(n)
    IN  IF Len(s) >= w THEN s ELSE [i \in 1..(w - Len(s)) |-> "0"] \o s

(***************************************************************************)
(* strconv.Atoi on a 64-bit int.  The result is [n, clamp, err]: err is    *)
(* "nil", "syntax" or "range"; on a syntax error the value is 0; on a      *)
(* range error the value is the int64 limit of the sign (clamp = 1 or -1,  *)
(* n unused).  Values of up to nine significant digits are computed.       *)
(***************************************************************************)
MaxInt64Digits ==
    <<"9", "2", "2", "3", "3", "7", "2", "0", "3", "6",
      "8", "5", "4", "7", "7", "5", "8", "0", "7">>

\* a < b for digit strings of the same length
RECURSIVE DigitsLess(_, _)
DigitsLess(a, b) ==
    IF Len(a) = 0 THEN FALSE
    ELSE IF a[1] # b[1] THEN DigitVal(a[1]) < DigitVal(b[1])
    ELSE DigitsLess(Tail(a), Tail(b))

\* the magnitude sig (no leading zeros) does not fit: above MaxInt64 for a
\* positive number, above MaxInt64 + 1 for a negative one
OutOfInt64(sig, neg) ==
    \/ Len(sig) > 19
    \/ /\ Len(sig) = 19
       /\ DigitsLess(MaxInt64Digits, sig)
       /\ ~(neg /\ Take(sig, 18) = Take(MaxInt64Digits, 18) /\ sig[19] = "8")

Atoi(s) ==
    LET signed == Len(s) > 0 /\ s[1] \in {"+", "-"}
        neg    == Len(s) > 0 /\ s[1] = "-"
        body   == IF signed THEN Tail(s) ELSE s
        sig    == StripZeros(body)
    IN  IF Len(body) = 0 \/ ~AllDigits(body)
            THEN [n |-> 0, clamp |-> 0, err |-> "syntax"]
        ELSE IF OutOfInt64(sig, neg)
            THEN [n |-> 0, clamp |-> IF neg THEN -1 ELSE 1, err |-> "range"]
        ELSE [n |-> IF neg THEN 0 - DecVal(sig) ELSE DecVal(sig),
              clamp |-> 0, err |-> "nil"]

(***************************************************************************)
(* float32 arithmetic.  A float32 is [kind, neg, m, e]: kind "fin" with    *)
(* value m * 2^e, where m = 0 or 2^23 <= m < 2^24 (the 24-bit              *)
(* significand), or kind "inf" or "nan".  Every exponent the code can      *)
(* reach from two int64 operands is inside float32's normal range.         *)
(***************************************************************************)
F32(kind, neg, m, e) == [kind |-> kind, neg |-> neg, m |-> m, e |-> e]

\* round to nearest, ties to even: q with remainder r of a division by d
RoundEven(q, r, d) ==
    IF 2 * r > d \/ (2 * r = d /\ q % 2 = 1) THEN q + 1 ELSE q

\* the significand and exponent of the natural number a, 0 < a < 2^24
NormUp(a) ==
    LET k == CHOOSE j \in 0..23 : 2^(23 - j) <= a /\ a < 2^(24 - j)
    IN  <<a * 2^k, 0 - k>>

NormNat(a) ==
    IF a < 2^24 THEN NormUp(a)
    ELSE LET s == CHOOSE k \in 1..7 : a \div 2^k < 2^24
                                      /\ a \div 2^(k - 1) >= 2^24
             q == RoundEven(a \div 2^s, a % 2^s, 2^s)
         IN  IF q = 2^24 THEN <<2^23, s + 1>> ELSE <<q, s>>

\* float32(i) of an Atoi result; MaxInt64 and MinInt64 both round to
\* magnitude 2^63
Float32OfInt(i) ==
    IF i.clamp # 0 THEN F32("fin", i.clamp < 0, 2^23, 40)
    ELSE IF i.n = 0 THEN F32("fin", FALSE, 0, 0)
    ELSE LET a  == IF i.n < 0 THEN 0 - i.n ELSE i.n
             me == NormNat(a)
         IN  F32("fin", i.n < 0, me[1], me[2])

\* k more bits (k <= 6) of the quotient qr[1], with remainder qr[2], of a
\* division by d < 2^24
MoreBits(qr, d, k) ==
    <<qr[1] * 2^k + (qr[2] * 2^k) \div d, (qr[2] * 2^k) % d>>

\* 23 more bits of the quotient q (remainder r) of a division by d
LongDiv(q, r, d) ==
    MoreBits(MoreBits(MoreBits(MoreBits(<<q, r>>, d, 6), d, 6), d, 6), d, 5)

\* a / b on finite float32 operands (Go's float32 division, IEEE 754)
Float32Div(a, b) ==
    LET neg == (a.neg /\ ~b.neg) \/ (~a.neg /\ b.neg)
    IN  IF b.m = 0 THEN
            IF a.m = 0 THEN F32("nan", FALSE, 0, 0) ELSE F32("inf", neg, 0, 0)
        ELSE IF a.m = 0 THEN F32("fin", neg, 0, 0)
        ELSE LET big == a.m >= b.m
                 \* the quotient of the significands lies in (1/2, 2)
                 r0 == IF big THEN a.m - b.m ELSE 2 * a.m - b.m
                 e0 == IF big THEN a.e - b.e - 23 ELSE a.e - b.e - 24
                 qr == LongDiv(1, r0, b.m)
                 q  == RoundEven(qr[1], qr[2], b.m)
             IN  IF q = 2^24 THEN F32("fin", neg, 2^23, e0 + 1)
                 ELSE F32("fin", neg, q, e0)

(***************************************************************************)
(* fmt.Sprintf("%.1f", f) of a float32: the exact value of f rounded to    *)
(* one decimal, ties to even; the sign of a negative value is kept even    *)
(* when the digits round to zero; "+Inf", "-Inf" and "NaN" otherwise.      *)
(***************************************************************************)
\* A natural number below 10^21 as three limbs of seven decimal digits.
Limb == 10^7

\* the number x times f, f <= 2^7
Times(x, f) ==
    LET lo  == x[3] * f
        mid == x[2] * f + lo \div Limb
        hi  == x[1] * f + mid \div Limb
    IN  <<hi, mid % Limb, lo % Limb>>

\* the number x times 2^k
RECURSIVE Shift(_, _)
Shift(x, k) ==
    IF k = 0 THEN x
    ELSE IF k >= 7 THEN Shift(Times(x, 2^7), k - 7)
    ELSE Times(x, 2^k)

\* the decimal digits of m * 2^k, m < 2^24 and k <= 40
ShiftDec(m, k) ==
    LET x == Shift(<<0, m \div Limb, m % Limb>>, k)
    IN  IF x[1] > 0 THEN NatStr(x[1]) \o PadInt(x[2], 7) \o PadInt(x[3], 7)
        ELSE IF x[2] > 0 THEN NatStr(x[2]) \o PadInt(x[3], 7)
        ELSE NatStr(x[3])

Sprintf1f(f) ==
    IF f.kind = "nan" THEN <<"N", "a", "N">>
    ELSE IF f.kind = "inf" THEN
        (IF f.neg THEN <<"-">> ELSE <<"+">>) \o <<"I", "n", "f">>
    ELSE LET sign == IF f.neg THEN <<"-">> ELSE <<>>
         IN  IF f.e >= 0 THEN
                 sign \o ShiftDec(f.m, f.e) \o <<".", "0">>
             ELSE IF 0 - f.e >= 29 THEN
                 \* below 2^-5: the tenths round to 0
                 sign \o <<"0", ".", "0">>
             ELSE LET d == 2^(0 - f.e)
                      t == RoundEven((10 * f.m) \div d, (10 * f.m) % d, d)
                  IN  sign \o NatStr(t \div 10) \o <<".">> \o NatStr(t % 10)

(***************************************************************************)
(* time.Parse("2006:01:02 15:04:05", value) and                            *)
(* t.Format("2006/01/02 15:04").                                           *)
(***************************************************************************)
NoNum == [ok |-> FALSE, n |-> 0, rest |-> <<>>]

\* time.getnum: a two-digit number, or when not fixed a one-digit one
GetNum(s, fixed) ==
    IF Len(s) = 0 \/ ~IsDigit(s[1]) THEN NoNum
    ELSE IF Len(s) < 2 \/ ~IsDigit(s[2]) THEN
        (IF fixed THEN NoNum
         ELSE [ok |-> TRUE, n |-> DigitVal(s[1]), rest |-> Tail(s)])
    ELSE [ok |-> TRUE, n |-> 10 * DigitVal(s[1]) + DigitVal(s[2]),
          rest |-> Drop(s, 2)]

\* the four-digit year of layout element "2006"
GetYear(s) ==
    IF Len(s) < 4 \/ ~AllDigits(Take(s, 4)) THEN NoNum
    ELSE [ok |-> TRUE, n |-> DecVal(Take(s, 4)), rest |-> Drop(s, 4)]

RECURSIVE CutSpace(_)
CutSpace(s) == IF Len(s) > 0 /\ s[1] = " " THEN CutSpace(Tail(s)) ELSE s

\* time.skip for a one-character literal of the layout: a space of the
\* layout stands for any run of spaces of the value, any other character
\* for itself
Skip(s, c) ==
    IF c = " " THEN
        (IF Len(s) > 0 /\ s[1] # " " THEN NoNum
         ELSE [ok |-> TRUE, n |-> 0, rest |-> CutSpace(s)])
    ELSE IF Len(s) = 0 \/ s[1] # c THEN NoNum
    ELSE [ok |-> TRUE, n |-> 0, rest |-> Tail(s)]

\* a literal of the layout, then a number
SkipGetNum(s, c, fixed) ==
    LET k == Skip(s, c)
    IN  IF k.ok THEN GetNum(k.rest, fixed) ELSE NoNum

RECURSIVE CutDigits(_)
CutDigits(s) == IF Len(s) > 0 /\ IsDigit(s[1]) THEN CutDigits(Tail(s)) ELSE s

\* after the seconds: a fractional second of the value is read even though
\* the layout has none
CutFraction(s) ==
    IF Len(s) >= 2 /\ s[1] \in {".", ","} /\ IsDigit(s[2])
    THEN CutDigits(Drop(s, 2)) ELSE s

IsLeap(year) == year % 4 = 0 /\ (year % 100 # 0 \/ year % 400 = 0)

DaysIn(month, year) ==
    IF month = 2 THEN (IF IsLeap(year) THEN 29 ELSE 28)
    ELSE IF month \in {4, 6, 9, 11} THEN 30 ELSE 31

NoTime == [ok |-> FALSE, year |-> 0, month |-> 0, day |-> 0, hour |-> 0, min |-> 0]

TimeParse(value) ==
    LET y  == GetYear(value)
        mo == IF y.ok THEN SkipGetNum(y.rest, ":", TRUE) ELSE NoNum
        d  == IF mo.ok /\ mo.n >= 1 /\ mo.n <= 12
              THEN SkipGetNum(mo.rest, ":", TRUE) ELSE NoNum
        h  == IF d.ok THEN SkipGetNum(d.rest, " ", FALSE) ELSE NoNum
        mi == IF h.ok /\ h.n < 24 THEN SkipGetNum(h.rest, ":", TRUE) ELSE NoNum
        se == IF mi.ok /\ mi.n < 60 THEN SkipGetNum(mi.rest, ":", TRUE) ELSE NoNum
    IN  IF /\ se.ok /\ se.n < 60
           /\ Len(CutFraction(se.rest)) = 0
           /\ d.n >= 1 /\ d.n <= DaysIn(mo.n, y.n)
        THEN [ok |-> TRUE, year |-> y.n, month |-> mo.n, day |-> d.n,
              hour |-> h.n, min |-> mi.n]
        ELSE NoTime

TimeFormat(t) ==
    PadInt(t.year, 4) \o <<"/">> \o PadInt(t.month, 2) \o <<"/">>
        \o PadInt(t.day, 2) \o <<" ">> \o PadInt(t.hour, 2) \o <<":">>
        \o PadInt(t.min, 2)

(***************************************************************************)
(* The field table and the record                                          *)
(***************************************************************************)
IFD_PATH == "IFD"

EXIF_IFD_PATH == "IFD/Exif"

\* logical field name -> tag id and directory path
IFD_PATH_MAP ==
    [Make                    |-> [tagId |-> 271,   path |-> IFD_PATH],
     Model                   |-> [tagId |-> 272,   path |-> IFD_PATH],
     LensMake                |-> [tagId |-> 42035, path |-> EXIF_IFD_PATH],
     LensModel               |-> [tagId |-> 42036, path |-> EXIF_IFD_PATH],
     ExposureTime            |-> [tagId |-> 33434, path |-> EXIF_IFD_PATH],
     FNumber                 |-> [tagId |-> 33437, path |-> EXIF_IFD_PATH],
     PhotographicSensitivity |-> [tagId |-> 34855, path |-> EXIF_IFD_PATH],
     FocalLengthIn35mmFilm   |-> [tagId |-> 41989, path |-> EXIF_IFD_PATH],
     FocalLength             |-> [tagId |-> 37386, path |-> EXIF_IFD_PATH],
     DateTimeOriginal        |-> [tagId |-> 36867, path |-> EXIF_IFD_PATH],
     PixelXDimension         |-> [tagId |-> 40962, path |-> EXIF_IFD_PATH],
     PixelYDimension         |-> [tagId |-> 40963, path |-> EXIF_IFD_PATH],
     Orientation             |-> [tagId |-> 274,   path |-> IFD_PATH]]

TagNames == DOMAIN IFD_PATH_MAP

Paths == {IFD_PATH, EXIF_IFD_PATH}

\* &ExifData{}: empty strings, zero dimensions
ExifData ==
    [name \in TagNames |->
        IF name \in {"PixelXDimension", "PixelYDimension"} THEN 0 ELSE <<>>]

(***************************************************************************)
(* The library calls of the loop, on a directory tree: for each path a     *)
(* directory [found, entries, failing], where entries are the tagged       *)
(* entries [tagId, value, err] in container order (value and err: the      *)
(* string and the error FormatFirst returns for the entry) and failing     *)
(* are the tag ids whose search returns an error.                          *)
(***************************************************************************)
\* exif.FindIfdFromRootIfd(rootIfd, ifdPath)
FindIfdFromRootIfd(root, ifdPath) == [err |-> ~root[ifdPath].found, ifd |-> root[ifdPath]]

\* ifd.FindTagWithId(tagId): the entries of the directory itself with the id
FindTagWithId(ifd, tagId) ==
    LET Match(entry) == entry.tagId = tagId
    IN  [err |-> tagId \in ifd.failing, results |-> SelectSeq(ifd.entries, Match)]

\* value, _ := item.FormatFirst(): the error is dropped
FormatFirst(item) == item.value

(***************************************************************************)
(* One iteration of the loop of getExif.  Its result is                    *)
(* [exit, print, set]: whether os.Exit(1) was called, the line printed     *)
(* (or NoLine) and the assignment [attr, val] made to the record, if any.  *)
(* A printed line is [msg, field]: the text of the format, and the field   *)
(* name the text or its arguments carry ("" when they carry none; the      *)
(* library's error value, printed after the text, is not modelled).        *)
(***************************************************************************)
NoLine == [msg |-> "", field |-> ""]

Line(msg, field) == [msg |-> msg, field |-> field]

Exit(line) == [exit |-> TRUE, print |-> line, set |-> <<>>]

Continue(line) == [exit |-> FALSE, print |-> line, set |-> <<>>]

Assign(attr, val) ==
    [exit |-> FALSE, print |-> NoLine, set |-> <<[attr |-> attr, val |-> val]>>]

\* IfdError as it would be if the loop went on to the next key
IfdErrorSkipped == Continue(Line("Error FindIfdFromRootIfd:", ""))

\* FindIfdFromRootIfd returned an error
IfdError == Exit(Line("Error FindIfdFromRootIfd:", ""))

\* FindTagWithId returned an error
TagError == Exit(Line("Error FindTagWithName:", ""))

\* TagNotFound as it would be if a missing tag ended the program
TagNotFoundFatal(tagName) == Exit(Line("Tag %s not found", tagName))

\* len(results) == 0
TagNotFound(tagName) == Continue(Line("Tag %s not found", tagName))

\* the test of err after FormatFirst
ValueError == Exit(Line("Error Value:", ""))

\* FNumberOutput as it would be with the division made on the int values
FNumberOutputOfInts(value) ==
    IF Contains(value, "/") THEN
        LET parts       == Split(value, "/")
            numerator   == Atoi(parts[1])
            denominator == Atoi(parts[2])
            quotient    == IF denominator.n = 0 THEN 0
                           ELSE numerator.n \div denominator.n
        IN  Sprintf1f(Float32OfInt([n |-> quotient, clamp |-> 0, err |-> "nil"]))
    ELSE value

\* case "FNumber": the string assigned
FNumberOutput(value) ==
    IF Contains(value, "/") THEN
        LET parts       == Split(value, "/")
            numerator   == Atoi(parts[1])
            denominator == Atoi(parts[2])
            f == Float32Div(Float32OfInt(numerator), Float32OfInt(denominator))
        IN  Sprintf1f(f)
    ELSE value

\* CaseFNumber as it would be if the errors of Atoi were tested
CaseFNumberChecked(value) ==
    IF Contains(value, "/")
       /\ \E i \in 1..2 : Atoi(Split(value, "/")[i]).err # "nil"
    THEN Exit(Line("Error parsing FNumber:", "FNumber"))
    ELSE Assign("FNumber", FNumberOutput(value))

CaseFNumber(value) == Assign("FNumber", FNumberOutput(value))

\* CaseDateTimeOriginal as it would be if a parse error ended the program
CaseDateTimeOriginalFatal(value) ==
    LET t == TimeParse(value)
    IN  IF ~t.ok
        THEN Exit(Line("Error parsing DateTimeOriginal:", "DateTimeOriginal"))
        ELSE Assign("DateTimeOriginal", TimeFormat(t))

CaseDateTimeOriginal(value) ==
    LET t == TimeParse(value)
    IN  IF ~t.ok
        THEN Continue(Line("Error parsing DateTimeOriginal:", "DateTimeOriginal"))
        ELSE Assign("DateTimeOriginal", TimeFormat(t))

\* CasePixelXDimension as it would be if the error of Atoi were dropped
CasePixelXDimensionUnchecked(value) == Assign("PixelXDimension", Atoi(value).n)

CasePixelXDimension(value) ==
    LET output == Atoi(value)
    IN  IF output.err # "nil"
        THEN Exit(Line("Error parsing PixelXDimension:", "PixelXDimension"))
        ELSE Assign("PixelXDimension", output.n)

CasePixelYDimension(value) ==
    LET output == Atoi(value)
    IN  IF output.err # "nil"
        THEN Exit(Line("Error parsing PixelYDimension:", "PixelYDimension"))
        ELSE Assign("PixelYDimension", output.n)

\* CaseString as it would be if a value of "0" were refused
CaseStringNonZero(tagName, value) ==
    IF value = <<"0">> THEN Continue(Line("Error value:", tagName))
    ELSE Assign(tagName, value)

\* CaseString as it would be if the case of LensMake assigned exifData.Make
CaseStringShared(tagName, value) ==
    Assign(IF tagName = "LensMake" THEN "Make" ELSE tagName, value)

\* the cases that assign the value as it is: Make, Model, LensMake,
\* LensModel, ExposureTime, PhotographicSensitivity, FocalLengthIn35mmFilm,
\* FocalLength, Orientation
CaseString(tagName, value) == Assign(tagName, value)

\* switch tagName
Switch(tagName, value) ==
    CASE tagName = "FNumber" -> CaseFNumber(value)
      [] tagName = "DateTimeOriginal" -> CaseDateTimeOriginal(value)
      [] tagName = "PixelXDimension" -> CasePixelXDimension(value)
      [] tagName = "PixelYDimension" -> CasePixelYDimension(value)
      [] OTHER -> CaseString(tagName, value)

\* the body of "for tagName, tagInfo := range IFD_PATH_MAP"
LoopBody(root, tagName) ==
    LET tagInfo == IFD_PATH_MAP[tagName]
        dir     == FindIfdFromRootIfd(root, tagInfo.path)
        found   == FindTagWithId(dir.ifd, tagInfo.tagId)
        \* when the code tests err after FormatFirst, err is still the
        \* error of FindTagWithId
        err     == found.err
    IN  IF dir.err THEN IfdError
        ELSE IF found.err THEN TagError
        ELSE IF Len(found.results) = 0 THEN TagNotFound(tagName)
        ELSE LET item  == found.results[1]
                 value == FormatFirst(item)
             IN  IF err THEN ValueError ELSE Switch(tagName, value)

(***************************************************************************)
(* Input files.  A file is what the library makes of it: whether           *)
(* SearchFileAndExtractExif and Collect fail, which directories are found, *)
(* and for each field what the search of its tag gives: an error, or the   *)
(* matching entries.                                                       *)
(***************************************************************************)
\* number of further entries a tag search returns after the first
MaxExtra == 1

RECURSIVE Flatten(_)
Flatten(ss) == IF Len(ss) = 0 THEN <<>> ELSE ss[1] \o Flatten(Tail(ss))

IntStr(n) == IF n < 0 THEN <<"-">> \o NatStr(0 - n) ELSE NatStr(n)

\* the string FormatFirst gives for a rational n/d
Rational(nd) == IntStr(nd[1]) \o <<"/">> \o IntStr(nd[2])

TagNameList ==
    <<"Make", "Model", "LensMake", "LensModel",
      "ExposureTime", "FNumber", "PhotographicSensitivity", "FocalLengthIn35mmFilm",
      "FocalLength", "DateTimeOriginal", "PixelXDimension", "PixelYDimension", "Orientation">>

Index(name) == CHOOSE i \in 1..Len(TagNameList) : TagNameList[i] = name

BaseValue ==
    [Make |-> <<"C", "a", "n", "o", "n">>,
     Model |-> <<"E", "O", "S", " ", "R", "5">>,
     LensMake |-> <<"S", "i", "g", "m", "a">>,
     LensModel |-> <<"R", "F", "5", "0">>,
     ExposureTime |-> <<"1", "/", "2", "5", "0">>,
     FNumber |-> <<"1", "6", "/", "1", "0">>,
     PhotographicSensitivity |-> <<"1", "0", "0">>,
     FocalLengthIn35mmFilm |-> <<"5", "0">>,
     FocalLength |-> <<"5", "0", "/", "1">>,
     DateTimeOriginal |-> <<"2", "0", "2", "3", ":", "0", "4", ":", "0", "5", " ", "0", "9", ":", "3", "0", ":", "0", "0">>,
     PixelXDimension |-> <<"4", "0", "3", "2">>,
     PixelYDimension |-> <<"3", "0", "2", "4">>,
     Orientation |-> <<"1">>]

\* numerator and denominator of the rationals tried, the denominator not 0
Rationals ==
    <<<<28, 1>>, <<18, 10>>, <<1, 4>>, <<3, 4>>, <<1, 20>>, <<3, 20>>,
      <<7, 20>>, <<95, 100>>, <<-5, 2>>, <<-1, 100>>, <<0, 7>>, <<0, -5>>,
      <<99999, 7>>, <<1, 3>>, <<16, 10>>, <<16777217, 1>>>>

\* FNumber strings that are no rational of two int values, the second not 0
OtherFNumbers ==
    <<<<"4">>,
      <<>>,
      <<"2", ".", "8">>,
      <<"1", "6", "/", "0">>,
      <<"0", "/", "0">>,
      <<"-", "1", "/", "0">>,
      <<"a", "/", "1", "0">>,
      <<"1", "6", "/", "b">>,
      <<"/">>,
      <<"1", "6", "/">>,
      <<"/", "5">>,
      <<"1", "/", "2", "/", "3">>,
      <<"1", " ", "/", "2">>,
      <<"+", "5", "/", "2">>,
      <<"9", "9", "9", "9", "9", "9", "9", "9", "9", "9", "9", "9", "9", "9", "9", "9", "9", "9", "9", "9", "/", "0">>,
      <<"9", "9", "9", "9", "9", "9", "9", "9", "9", "9", "9", "9", "9", "9", "9", "9", "9", "9", "9", "9", "/", "1">>,
      <<"1", "/", "9", "9", "9", "9", "9", "9", "9", "9", "9", "9", "9", "9", "9", "9", "9", "9", "9", "9", "9", "9">>,
      <<"-", "9", "9", "9", "9", "9", "9", "9", "9", "9", "9", "9", "9", "9", "9", "9", "9", "9", "9", "9", "9", "/", "3">>>>

\* DateTimeOriginal strings other than the base one
DateTimes ==
    <<<<"2", "0", "2", "2", ":", "0", "1", ":", "0", "1", " ", "1", "2", ":", "0", "0", ":", "0", "0">>,
      <<"2", "0", "2", "4", ":", "0", "2", ":", "2", "9", " ", "2", "3", ":", "5", "9", ":", "5", "9">>,
      <<"2", "0", "2", "3", ":", "0", "2", ":", "2", "9", " ", "0", "9", ":", "3", "0", ":", "0", "0">>,
      <<"1", "9", "0", "0", ":", "0", "2", ":", "2", "9", " ", "0", "9", ":", "3", "0", ":", "0", "0">>,
      <<"0", "0", "0", "0", ":", "0", "1", ":", "0", "1", " ", "0", "0", ":", "0", "0", ":", "0", "0">>,
      <<" ", " ", " ", " ", ":", " ", " ", ":", " ", " ", " ", " ", " ", ":", " ", " ", ":", " ", " ">>,
      <<" ", " ", " ", " ", " ", " ", " ", " ", " ", " ", " ", " ", " ", " ", " ", " ", " ", " ", " ">>,
      <<>>,
      <<"2", "0", "2", "3", ":", "0", "4", ":", "0", "5", " ", "9", ":", "3", "0", ":", "0", "0">>,
      <<"2", "0", "2", "3", ":", "0", "4", ":", "0", "5", " ", " ", "0", "9", ":", "3", "0", ":", "0", "0">>,
      <<"2", "0", "2", "3", ":", "0", "4", ":", "0", "5", " ", "0", "9", ":", "3", "0", ":", "0", "0", ".", "5">>,
      <<"2", "0", "2", "3", ":", "0", "4", ":", "0", "5", " ", "0", "9", ":", "3", "0", ":", "0", "0", ",", "1", "2", "3">>,
      <<"2", "0", "2", "3", ":", "0", "4", ":", "0", "5", " ", "0", "9", ":", "3", "0", ":", "0", "0", ".">>,
      <<"2", "0", "2", "3", ":", "0", "4", ":", "0", "5", " ", "0", "9", ":", "3", "0", ":", "0", "0", "Z">>,
      <<"2", "0", "2", "3", ":", "0", "4", ":", "0", "5", " ", "0", "9", ":", "3", "0">>,
      <<"2", "0", "2", "3", "/", "0", "4", "/", "0", "5", " ", "0", "9", ":", "3", "0", ":", "0", "0">>,
      <<"2", "0", "2", "3", ":", "0", "4", ":", "0", "5", "T", "0", "9", ":", "3", "0", ":", "0", "0">>,
      <<"2", "0", "2", "3", ":", "4", ":", "5", " ", "0", "9", ":", "3", "0", ":", "0", "0">>,
      <<"2", "0", "2", "3", ":", "1", "3", ":", "0", "1", " ", "0", "9", ":", "3", "0", ":", "0", "0">>,
      <<"2", "0", "2", "3", ":", "0", "4", ":", "3", "1", " ", "0", "9", ":", "3", "0", ":", "0", "0">>,
      <<"2", "0", "2", "3", ":", "0", "4", ":", "0", "0", " ", "0", "9", ":", "3", "0", ":", "0", "0">>,
      <<"2", "0", "2", "3", ":", "0", "4", ":", "0", "5", " ", "2", "4", ":", "0", "0", ":", "0", "0">>,
      <<"2", "0", "2", "3", ":", "0", "4", ":", "0", "5", " ", "0", "9", ":", "6", "0", ":", "0", "0">>,
      <<"2", "0", "2", "3", ":", "0", "4", ":", "0", "5", " ", "0", "9", ":", "3", "0", ":", "6", "0">>,
      <<"2", "3", ":", "0", "4", ":", "0", "5", " ", "0", "9", ":", "3", "0", ":", "0", "0">>,
      <<"2", "0", "2", "3", ":", "0", "4", ":", "0", "5", " ", "0", "9", ":", "3", ":", "0", "0">>>>

\* dimension strings that are integers, other than the base ones
Dimensions ==
    <<<<"6", "0", "0", "0">>,
      <<"0">>,
      <<"+", "1", "2">>,
      <<"-", "5">>,
      <<"0", "0", "1", "2">>>>

\* dimension strings that are no integers of the int type
BadDimensions ==
    <<<<"a", "b", "c">>,
      <<"4", "0", " ", "3", "2">>,
      <<"4", "0", "3", "2", ".", "0">>,
      <<"0", "x", "1", "0">>,
      <<"4", "_", "0", "3", "2">>,
      <<" ", "4", "0", "3", "2">>,
      <<"1", "2", "a">>,
      <<"-">>,
      <<"9", "9", "9", "9", "9", "9", "9", "9", "9", "9", "9", "9", "9", "9", "9", "9", "9", "9", "9", "9">>>>

Results(items) == [err |-> FALSE, results |-> items]

Entry(value) == [value |-> value, err |-> FALSE]

\* an entry whose decoding fails: FormatFirst returns an error with value
Undecodable(value) == [value |-> value, err |-> TRUE]

Found(value) == Results(<<Entry(value)>>)

Absent == Results(<<>>)

SearchFailed == [err |-> TRUE, results |-> <<>>]

\* the first entry followed by k entries of another value
Repeated(item, k) == Results(<<item>> \o [i \in 1..k |-> Entry(<<"x">>)])

FoundEach(values) == [i \in 1..Len(values) |-> Found(values[i])]

\* values of the tag of a field on which the loop goes on
Values(name) ==
    CASE name = "FNumber" ->
            [i \in 1..Len(Rationals) |-> Rational(Rationals[i])] \o OtherFNumbers
      [] name = "DateTimeOriginal" -> DateTimes
      [] name \in {"PixelXDimension", "PixelYDimension"} -> Dimensions
      [] OTHER -> <<<<"0">>, <<>>>>

IsDimension(name) == name \in {"PixelXDimension", "PixelYDimension"}

\* what the search of the tag of a field may give without the loop ending
Alternatives(name) ==
    <<Found(BaseValue[name]), Absent, Results(<<Undecodable(BaseValue[name])>>)>>
        \o (IF IsDimension(name) THEN <<>> ELSE <<Results(<<Undecodable(<<>>)>>)>>)
        \o [k \in 1..MaxExtra |-> Repeated(Entry(BaseValue[name]), k)]
        \o FoundEach(Values(name))

\* what it may give that ends the loop
FatalAlternatives(name) ==
    <<SearchFailed>>
        \o (IF IsDimension(name)
            THEN <<Results(<<Undecodable(<<>>)>>)>> \o FoundEach(BadDimensions)
            ELSE <<>>)

\* a tag per field, in the order of TagNameList
BaseTags == [i \in 1..Len(TagNameList) |-> Found(BaseValue[TagNameList[i]])] \o <<>>

NoTags == [i \in 1..Len(TagNameList) |-> Absent] \o <<>>

With(tags, name, tag) == [tags EXCEPT ![Index(name)] = tag]

Longest ==
    CHOOSE n \in {Len(Alternatives(TagNameList[i])) : i \in 1..Len(TagNameList)} :
        \A i \in 1..Len(TagNameList) : Len(Alternatives(TagNameList[i])) <= n

\* the k-th mix: every field has one of its alternatives, each field going
\* through its alternatives from a start of its own
Mix(k) ==
    [i \in 1..Len(TagNameList) |->
        LET alts == Alternatives(TagNameList[i])
        IN  alts[((k + i) % Len(alts)) + 1]] \o <<>>

OneFatal(name) ==
    [i \in 1..Len(FatalAlternatives(name)) |->
        With(BaseTags, name, FatalAlternatives(name)[i])]

TwoFatal ==
    <<With(With(BaseTags, "PixelXDimension", Found(<<"a", "b", "c">>)),
           "PixelYDimension", Found(<<>>)),
      With(With(NoTags, "Make", SearchFailed), "PixelYDimension", Found(<<"-">>))>>

TagSets ==
    <<BaseTags, NoTags>>
        \o [k \in 1..Longest |-> Mix(k)]
        \o Flatten([i \in 1..Len(TagNameList) |-> OneFatal(TagNameList[i])])
        \o TwoFatal

Input(extractErr, collectErr, ifdFound, exifFound, tags) ==
    [extractErr |-> extractErr, collectErr |-> collectErr,
     ifdFound |-> ifdFound, exifFound |-> exifFound, tags |-> tags]

\* the input files, numbered
Inputs ==
    [i \in 1..Len(TagSets) |-> Input(FALSE, FALSE, TRUE, TRUE, TagSets[i])]
        \o <<Input(FALSE, FALSE, FALSE, TRUE, BaseTags),
             Input(FALSE, FALSE, TRUE, FALSE, BaseTags),
             Input(FALSE, FALSE, FALSE, FALSE, BaseTags),
             Input(FALSE, FALSE, FALSE, TRUE, NoTags),
             Input(FALSE, FALSE, TRUE, FALSE, NoTags),
             Input(TRUE, FALSE, TRUE, TRUE, BaseTags),
             Input(FALSE, TRUE, TRUE, TRUE, BaseTags)>>

\* the entries of the tag of the i-th field
EntriesOf(tags, i) ==
    [k \in 1..Len(tags[i].results) |->
        [tagId |-> IFD_PATH_MAP[TagNameList[i]].tagId,
         value |-> tags[i].results[k].value,
         err   |-> tags[i].results[k].err]] \o <<>>

\* the directory at path: the entries of the tags of its fields
Directory(path, found, tags) ==
    LET mine == {i \in 1..Len(TagNameList) : IFD_PATH_MAP[TagNameList[i]].path = path}
    IN  [found   |-> found,
         entries |-> Flatten([i \in 1..Len(TagNameList) |->
                        IF i \in mine THEN EntriesOf(tags, i) ELSE <<>>]),
         failing |-> {IFD_PATH_MAP[TagNameList[i]].tagId : i \in {j \in mine : tags[j].err}}]

\* index.RootIfd of an input file
RootIfd(in) ==
    (IFD_PATH :> Directory(IFD_PATH, in.ifdFound, in.tags))
        @@ (EXIF_IFD_PATH :> Directory(EXIF_IFD_PATH, in.exifFound, in.tags))

\* The tree is only read, so the loop body is a function of the file and
\* the key: it is evaluated once for each.
Iterations ==
    [i \in 1..Len(Inputs) |->
        [k \in 1..Len(TagNameList) |-> LoopBody(RootIfd(Inputs[i]), TagNameList[k])]
            \o <<>>] \o <<>>

(***************************************************************************)
(* getExif as a state machine                                              *)
(***************************************************************************)
VARIABLES
    fileId,     \* the number of the input file
    pc,         \* "start", "loop", "returned" (getExif returned exifData) or
                \* "exited" (os.Exit was called)
    todo,       \* the keys of IFD_PATH_MAP the range loop has yet to visit
    exitTag,    \* the key of the iteration that called os.Exit ("" otherwise)
    exifData,   \* the record
    stdout,     \* the lines printed so far
    exitCode    \* the argument of os.Exit (0 while running)

vars == <<fileId, pc, todo, exitTag, exifData, stdout, exitCode>>

\* the input file
file == Inputs[fileId]

Init ==
    /\ fileId \in 1..Len(Inputs)
    /\ pc = "start"
    /\ todo = {}
    /\ exitTag = ""
    /\ exifData = ExifData
    /\ stdout = {}
    /\ exitCode = 0

\* extract, index, and the empty record
Start ==
    /\ pc = "start"
    /\ IF file.extractErr THEN
            /\ stdout' = stdout \cup {Line("Error SearchFileAndExtractExif:", "")}
            /\ pc' = "exited" /\ exitCode' = 1
            /\ UNCHANGED todo
       ELSE IF file.collectErr THEN
            /\ stdout' = stdout \cup {Line("Error Collect:", "")}
            /\ pc' = "exited" /\ exitCode' = 1
            /\ UNCHANGED todo
       ELSE /\ pc' = "loop" /\ todo' = TagNames
            /\ UNCHANGED <<stdout, exitCode>>
    /\ exifData' = ExifData
    /\ UNCHANGED <<fileId, exitTag>>

\* the effect of an iteration with result r on key name
Iterate(name, r) ==
    /\ exifData' = IF r.set = <<>> THEN exifData
                   ELSE [exifData EXCEPT ![r.set[1].attr] = r.set[1].val]
    /\ stdout' = IF r.print = NoLine THEN stdout ELSE stdout \cup {r.print}
    /\ todo' = todo \ {name}
    /\ IF r.exit
       THEN pc' = "exited" /\ exitCode' = 1 /\ exitTag' = name
       ELSE UNCHANGED <<pc, exitCode, exitTag>>

\* one iteration of the range loop: the map is visited in any order
Visit(name) ==
    /\ pc = "loop"
    /\ name \in todo
    /\ Iterate(name, Iterations[fileId][Index(name)])
    /\ UNCHANGED fileId

\* return exifData
Return ==
    /\ pc = "loop"
    /\ todo = {}
    /\ pc' = "returned"
    /\ UNCHANGED <<fileId, todo, exitTag, exifData, stdout, exitCode>>

Next ==
    \/ Start
    \/ \E name \in TagNames : Visit(name)
    \/ Return

Spec == Init /\ [][Next]_vars

(***************************************************************************)
(* What an input file holds for a field.  The sets of fields of a kind are *)
(* tabulated for the input files.                                          *)
(***************************************************************************)
\* what the search of the tag of the field gives
TagIn(input, name) == input.tags[Index(name)]

\* the file is read and indexed, the directory of the field is found and
\* the search of the tag returns no error
SearchedIn(input, name) ==
    /\ ~input.extractErr /\ ~input.collectErr
    /\ IF IFD_PATH_MAP[name].path = IFD_PATH THEN input.ifdFound ELSE input.exifFound
    /\ ~TagIn(input, name).err

\* the file is read and indexed, and the directory of the field is not found
UnresolvedIn(input, name) ==
    /\ ~input.extractErr /\ ~input.collectErr
    /\ ~(IF IFD_PATH_MAP[name].path = IFD_PATH THEN input.ifdFound ELSE input.exifFound)

\* the search returns no entry
MissingIn(input, name) ==
    SearchedIn(input, name) /\ Len(TagIn(input, name).results) = 0

\* the search returns an entry, and the first entry decodes
PresentIn(input, name) ==
    /\ SearchedIn(input, name)
    /\ Len(TagIn(input, name).results) > 0
    /\ ~TagIn(input, name).results[1].err

\* the search returns an entry, and decoding the first entry fails
UndecodedIn(input, name) ==
    /\ SearchedIn(input, name)
    /\ Len(TagIn(input, name).results) > 0
    /\ TagIn(input, name).results[1].err

\* the fields of each kind, for each input file
UnresolvedFields ==
    [i \in 1..Len(Inputs) |-> {name \in TagNames : UnresolvedIn(Inputs[i], name)}] \o <<>>

MissingFields ==
    [i \in 1..Len(Inputs) |-> {name \in TagNames : MissingIn(Inputs[i], name)}] \o <<>>

PresentFields ==
    [i \in 1..Len(Inputs) |-> {name \in TagNames : PresentIn(Inputs[i], name)}] \o <<>>

UndecodedFields ==
    [i \in 1..Len(Inputs) |-> {name \in TagNames : UndecodedIn(Inputs[i], name)}] \o <<>>

\* the decoded string of the first entry of each field (<<>> when none)
DecodedStrings ==
    [i \in 1..Len(Inputs) |->
        [k \in 1..Len(TagNameList) |->
            IF Len(Inputs[i].tags[k].results) = 0 THEN <<>>
            ELSE Inputs[i].tags[k].results[1].value] \o <<>>] \o <<>>

StringFields ==
    {"Make", "Model", "LensMake", "LensModel", "ExposureTime",
     "PhotographicSensitivity", "FocalLengthIn35mmFilm", "FocalLength",
     "Orientation"}

DimensionFields == {"PixelXDimension", "PixelYDimension"}

(***************************************************************************)
(* The same for the input file of the run, and how far the run went        *)
(***************************************************************************)
Unresolved == UnresolvedFields[fileId]

Missing == MissingFields[fileId]

Present == PresentFields[fileId]

Undecoded == UndecodedFields[fileId]

Decoded(name) == DecodedStrings[fileId][Index(name)]

\* the loop has visited the field
Visited(name) == pc # "start" /\ name \notin todo

\* the iteration of the field called os.Exit(1)
Aborted(name) == pc = "exited" /\ exitCode = 1 /\ exitTag = name

\* the loop went on after the iteration of the field
WentOn(name) == exitTag # name

(***************************************************************************)
(* C1: when the directory of a field resolves and the search of its tag    *)
(* returns no entry, the attribute of the field keeps its zero value ("",  *)
(* or 0 for the dimensions), the iteration does not end the program, and   *)
(* the loop goes on: the program can only end in another iteration.        *)
(***************************************************************************)
AbsentTagLeftEmpty ==
    \A name \in Missing :
        Visited(name) =>
            /\ exifData[name] = ExifData[name]
            /\ WentOn(name)
            /\ pc = "exited" => exitTag \in TagNames \ {name}

\* a record was returned for a file that lacks a tag and has another
AbsentTagReturned ==
    /\ pc = "returned"
    /\ Missing # {}
    /\ \E name \in Present : exifData[name] # ExifData[name]

(***************************************************************************)
(* C2: when the tag of a dimension is present, a decoded string that is a  *)
(* base-10 integer of the int type makes the attribute that integer, and   *)
(* any other string ends the program with exit code 1 in that iteration,   *)
(* so that no record is returned.                                          *)
(***************************************************************************)
\* an optional sign and decimal digits
IsNumeral(str) ==
    LET signed == Len(str) > 0 /\ str[1] \in {"+", "-"}
        digits == IF signed THEN Tail(str) ELSE str
    IN  Len(digits) > 0 /\ AllDigits(digits)

\* the digits of a numeral, without its sign and leading zeros
Magnitude(str) ==
    StripZeros(IF str[1] \in {"+", "-"} THEN Tail(str) ELSE str)

\* a numeral of a value that fits the int type
IsInt(str) ==
    IsNumeral(str) /\ ~OutOfInt64(Magnitude(str), str[1] = "-")

\* the value of such a string, of at most nine significant digits
IntOf(str) ==
    IF str[1] = "-" THEN 0 - DecVal(Magnitude(str)) ELSE DecVal(Magnitude(str))

\* whether the string of a dimension is an integer, and which
DimensionOf(str) ==
    IF IsInt(str) THEN [int |-> TRUE, n |-> IntOf(str)] ELSE [int |-> FALSE, n |-> 0]

Dimension ==
    [i \in 1..Len(Inputs) |->
        [PixelXDimension |-> DimensionOf(DecodedStrings[i][Index("PixelXDimension")]),
         PixelYDimension |-> DimensionOf(DecodedStrings[i][Index("PixelYDimension")])]]
        \o <<>>

DimensionStoredOrFatal ==
    \A name \in DimensionFields \cap Present :
        Visited(name) =>
            IF Dimension[fileId][name].int
            THEN exifData[name] = Dimension[fileId][name].n /\ WentOn(name)
            ELSE Aborted(name) /\ exifData[name] = 0

\* one dimension was stored and the other one ended the program
DimensionStoredAndFatal ==
    /\ Aborted("PixelYDimension")
    /\ DimensionFields \subseteq Present
    /\ Visited("PixelXDimension")
    /\ exifData.PixelXDimension = 4032

(***************************************************************************)
(* C5: for the nine string fields, when the tag is present the attribute   *)
(* is the decoded string, whatever the string: "0", and the empty string,  *)
(* are stored like any other, and the loop goes on.                        *)
(***************************************************************************)
StringStoredAsIs ==
    \A name \in StringFields \cap Present :
        Visited(name) => exifData[name] = Decoded(name) /\ WentOn(name)

\* FocalLengthIn35mmFilm was "0" and the record was returned with it
ZeroFocalLengthStored ==
    /\ pc = "returned"
    /\ "FocalLengthIn35mmFilm" \in Present
    /\ Decoded("FocalLengthIn35mmFilm") = <<"0">>
    /\ exifData.FocalLengthIn35mmFilm = <<"0">>

(***************************************************************************)
(* C6: when the search returns an entry and decoding the first value of    *)
(* the entry fails, the iteration ends the program and the attribute of    *)
(* the field is not assigned.                                              *)
(***************************************************************************)
DecodeErrorFatal ==
    \A name \in Undecoded :
        Visited(name) => Aborted(name) /\ exifData[name] = ExifData[name]

(***************************************************************************)
(* C7: when the directory of a field is not found, the iteration of the    *)
(* field ends the program with exit code 1; nothing happens after that     *)
(* (no other field is visited) and no record is returned for a file one of *)
(* whose directories is not found.                                         *)
(***************************************************************************)
UnresolvedPathAborts ==
    /\ \A name \in Unresolved : Visited(name) => Aborted(name)
    /\ pc = "returned" => Unresolved = {}
    /\ pc = "exited" => ~ENABLED Next

\* the program ended on a missing directory after some fields were stored
UnresolvedPathAfterFields ==
    /\ \E name \in Unresolved : Aborted(name)
    /\ \E name \in Present : Visited(name) /\ exifData[name] # ExifData[name]

(***************************************************************************)
(* C3: when the tag of DateTimeOriginal is present, a decoded string that  *)
(* time.Parse accepts for "2006:01:02 15:04:05" makes the attribute the    *)
(* date and time as YYYY/MM/DD HH:MM, and any other string leaves the      *)
(* attribute empty; in both cases the loop goes on.  The accepted strings  *)
(* are YYYY:MM:DD, one or more spaces, an hour of one or two digits,       *)
(* :MM:SS, and possibly a fraction of a second after "." or ",", with the  *)
(* month, day, hour, minute and second in range.                           *)
(***************************************************************************)
\* the characters a to b of str exist and are decimal digits
Digits(str, a, b) == b <= Len(str) /\ \A i \in a..b : IsDigit(str[i])

Number(str, a, b) == DecVal(SubSeq(str, a, b))

\* a date, spaces up to position h, an hour of w digits, minute and second,
\* and possibly a fraction
Shaped(str, h, w) ==
    /\ Len(str) >= h + w + 5
    /\ Digits(str, 1, 4) /\ str[5] = ":"
    /\ Digits(str, 6, 7) /\ str[8] = ":"
    /\ Digits(str, 9, 10)
    /\ \A i \in 11..(h - 1) : str[i] = " "
    /\ Digits(str, h, h + w - 1) /\ str[h + w] = ":"
    /\ Digits(str, h + w + 1, h + w + 2) /\ str[h + w + 3] = ":"
    /\ Digits(str, h + w + 4, h + w + 5)
    /\ \/ Len(str) = h + w + 5
       \/ /\ Len(str) > h + w + 6
          /\ str[h + w + 6] \in {".", ","}
          /\ Digits(str, h + w + 7, Len(str))

\* the numbers of a string of that shape are a date and a time of day
InRange(str, h, w) ==
    /\ Number(str, 6, 7) \in 1..12
    /\ Number(str, 9, 10) \in 1..DaysIn(Number(str, 6, 7), Number(str, 1, 4))
    /\ Number(str, h, h + w - 1) < 24
    /\ Number(str, h + w + 1, h + w + 2) < 60
    /\ Number(str, h + w + 4, h + w + 5) < 60

\* YYYY/MM/DD HH:MM of such a string
Rearranged(str, h, w) ==
    SubSeq(str, 1, 4) \o <<"/">> \o SubSeq(str, 6, 7) \o <<"/">>
        \o SubSeq(str, 9, 10) \o <<" ">>
        \o (IF w = 1 THEN <<"0">> ELSE <<>>) \o SubSeq(str, h, h + w - 1)
        \o <<":">> \o SubSeq(str, h + w + 1, h + w + 2)

\* whether a string is accepted, whether it has exactly the form of the
\* layout, and the attribute it gives
DateTimeOf(str) ==
    LET hours == {hw \in (12..Len(str)) \X (1..2) :
                    Shaped(str, hw[1], hw[2]) /\ InRange(str, hw[1], hw[2])}
    IN  IF hours = {} THEN [accepted |-> FALSE, exact |-> FALSE, output |-> <<>>]
        ELSE LET hw == CHOOSE x \in hours : TRUE
             IN  [accepted |-> TRUE,
                  exact    |-> Len(str) = 19 /\ hw = <<12, 2>>,
                  output   |-> Rearranged(str, hw[1], hw[2])]

DateTime ==
    [i \in 1..Len(Inputs) |->
        DateTimeOf(DecodedStrings[i][Index("DateTimeOriginal")])] \o <<>>

DateTimeReformattedIfParsed ==
    "DateTimeOriginal" \in Present /\ Visited("DateTimeOriginal") =>
        /\ WentOn("DateTimeOriginal")
        /\ exifData.DateTimeOriginal =
              IF DateTime[fileId].accepted THEN DateTime[fileId].output
              ELSE ExifData.DateTimeOriginal

\* a record was returned with the date of a string with a one-digit hour
OneDigitHourReformatted ==
    /\ pc = "returned"
    /\ "DateTimeOriginal" \in Present
    /\ DateTime[fileId].accepted /\ ~DateTime[fileId].exact
    /\ Len(Decoded("DateTimeOriginal")) = 18
    /\ exifData.DateTimeOriginal =
          <<"2", "0", "2", "3", "/", "0", "4", "/", "0", "5", " ",
            "0", "9", ":", "3", "0">>

\* the attribute is set only for a string of exactly the form of the layout
DateTimeReformattedIfExact ==
    "DateTimeOriginal" \in Present /\ Visited("DateTimeOriginal") =>
        /\ WentOn("DateTimeOriginal")
        /\ exifData.DateTimeOriginal =
              IF DateTime[fileId].exact THEN DateTime[fileId].output
              ELSE ExifData.DateTimeOriginal

(***************************************************************************)
(* C4: when the tag of FNumber is present and the decoded string is "n/d"  *)
(* for integers n and d, d not 0, the attribute is the float32 quotient of *)
(* float32(n) by float32(d) written with one digit after the point; for    *)
(* n and d of at most five digits that decimal is n/d to the nearest       *)
(* tenth.  A string without "/" is stored unchanged.                       *)
(***************************************************************************)
Abs(n) == IF n < 0 THEN 0 - n ELSE n

\* an optional "-", digits, a point and one digit
OneDecimal(str) ==
    LET body == IF Len(str) > 0 /\ str[1] = "-" THEN Tail(str) ELSE str
    IN  /\ Len(body) >= 3
        /\ body[Len(body) - 1] = "."
        /\ AllDigits(SubSeq(body, 1, Len(body) - 2))
        /\ IsDigit(body[Len(body)])

\* ten times the value of such a decimal
Tenths(str) ==
    LET body == IF str[1] = "-" THEN Tail(str) ELSE str
        t    == 10 * DecVal(SubSeq(body, 1, Len(body) - 2)) + DigitVal(body[Len(body)])
    IN  IF str[1] = "-" THEN 0 - t ELSE t

\* str is a decimal of one place within 1/20 of n/d
NearestTenth(str, n, d) ==
    OneDecimal(str) /\ 2 * Abs(10 * n - Tenths(str) * d) <= Abs(d)

\* the int n as strconv.Atoi returns it
IntValue(n) == [n |-> n, clamp |-> 0, err |-> "nil"]

\* what an FNumber string is: "plain" without "/", "rational" when it is
\* the n/d of one of Rationals, with the float32 quotient written with one
\* decimal, or "other"
FNumberOf(str) ==
    LET js == {j \in 1..Len(Rationals) : Rational(Rationals[j]) = str}
    IN  IF ~Contains(str, "/")
            THEN [kind |-> "plain", n |-> 0, d |-> 1, single |-> <<>>]
        ELSE IF js = {}
            THEN [kind |-> "other", n |-> 0, d |-> 1, single |-> <<>>]
        ELSE LET nd == Rationals[CHOOSE j \in js : TRUE]
             IN  [kind   |-> "rational", n |-> nd[1], d |-> nd[2],
                  single |-> Sprintf1f(Float32Div(Float32OfInt(IntValue(nd[1])),
                                                  Float32OfInt(IntValue(nd[2]))))]

FNumber ==
    [i \in 1..Len(Inputs) |-> FNumberOf(DecodedStrings[i][Index("FNumber")])] \o <<>>

FNumberSinglePrecisionQuotient ==
    "FNumber" \in Present /\ Visited("FNumber") =>
        LET fn == FNumber[fileId]
        IN  /\ fn.kind = "plain" => exifData.FNumber = Decoded("FNumber")
            /\ fn.kind = "rational" =>
                /\ exifData.FNumber = fn.single
                /\ OneDecimal(exifData.FNumber)
                /\ Abs(fn.n) <= 99999 /\ Abs(fn.d) <= 99999 =>
                        NearestTenth(exifData.FNumber, fn.n, fn.d)

\* a record was returned with the FNumber of 16777217/1
LargeNumeratorRounded ==
    /\ pc = "returned"
    /\ "FNumber" \in Present
    /\ FNumber[fileId].kind = "rational" /\ FNumber[fileId].n = 16777217
    /\ exifData.FNumber = <<"1", "6", "7", "7", "7", "2", "1", "6", ".", "0">>

\* the attribute is n/d to the nearest tenth for every n and non-zero d
FNumberNearestTenth ==
    "FNumber" \in Present /\ Visited("FNumber") =>
        LET fn == FNumber[fileId]
        IN  /\ fn.kind = "plain" => exifData.FNumber = Decoded("FNumber")
            /\ fn.kind = "rational" => NearestTenth(exifData.FNumber, fn.n, fn.d)

(***************************************************************************)
(* C10: when the tag of FNumber is present, the iteration never ends the   *)
(* program, whatever the decoded string: of a string with "/", a part      *)
(* that is no decimal integer counts as 0 and a decimal integer outside    *)
(* the int type counts as the limit of the int type of its sign; the       *)
(* attribute is written with the quotient and the loop goes on.            *)
(***************************************************************************)
\* a part of the string as an int: 0 when it is no integer
ZeroIfUnparsable(part) ==
    IF IsInt(part) THEN IntValue(IntOf(part)) ELSE IntValue(0)

\* the same, but the int limit when it is an integer out of range
LimitIfOutOfRange(part) ==
    IF IsNumeral(part) /\ ~IsInt(part)
    THEN [n |-> 0, clamp |-> IF part[1] = "-" THEN -1 ELSE 1, err |-> "range"]
    ELSE ZeroIfUnparsable(part)

PartValue(part, limit) ==
    IF limit THEN LimitIfOutOfRange(part) ELSE ZeroIfUnparsable(part)

\* the quotient of the first two parts, with one decimal
QuotientOf(str, limit) ==
    IF ~Contains(str, "/") THEN str
    ELSE Sprintf1f(Float32Div(Float32OfInt(PartValue(Split(str, "/")[1], limit)),
                              Float32OfInt(PartValue(Split(str, "/")[2], limit))))

LenientFNumber ==
    [i \in 1..Len(Inputs) |->
        [limit |-> QuotientOf(DecodedStrings[i][Index("FNumber")], TRUE),
         zero  |-> QuotientOf(DecodedStrings[i][Index("FNumber")], FALSE)]]
        \o <<>>

FNumberNeverAborts ==
    "FNumber" \in Present /\ Visited("FNumber") =>
        /\ WentOn("FNumber")
        /\ exifData.FNumber = LenientFNumber[fileId].limit

\* a record was returned with the FNumber of a string with a part that is
\* no integer
UnparsablePartWritten ==
    /\ pc = "returned"
    /\ "FNumber" \in Present
    /\ Decoded("FNumber") = <<"a", "/", "1", "0">>
    /\ exifData.FNumber = <<"0", ".", "0">>

\* every part that Atoi refuses counts as 0
FNumberUnparsableIsZero ==
    "FNumber" \in Present /\ Visited("FNumber") =>
        /\ WentOn("FNumber")
        /\ exifData.FNumber = LenientFNumber[fileId].zero

(***************************************************************************)
(* C8: when an iteration of the loop ends the program, a line was printed  *)
(* that names the stage that failed and the field of the iteration.        *)
(***************************************************************************)
FatalMessages ==
    {"Error FindIfdFromRootIfd:", "Error FindTagWithName:", "Error Value:",
     "Error parsing PixelXDimension:", "Error parsing PixelYDimension:"}

FatalReportNamesField ==
    \A name \in TagNames :
        Aborted(name) =>
            \E line \in stdout : line.msg \in FatalMessages /\ line.field = name

(***************************************************************************)
(* C9: whatever the order in which the loop visits the keys, a run that    *)
(* returns has visited every key, and its record is the one the order of   *)
(* the declaration gives; a run ends in os.Exit(1) only for a file for     *)
(* which the order of the declaration does, and returns only for a file    *)
(* for which it returns.                                                   *)
(***************************************************************************)
\* the record and the end of the loop over the keys k.. of TagNameList
RECURSIVE InOrder(_, _, _)
InOrder(i, k, record) ==
    IF k > Len(TagNameList) THEN [exit |-> FALSE, record |-> record]
    ELSE LET r == Iterations[i][k]
         IN  IF r.exit THEN [exit |-> TRUE, record |-> record]
             ELSE InOrder(i, k + 1,
                          IF r.set = <<>> THEN record
                          ELSE [record EXCEPT ![r.set[1].attr] = r.set[1].val])

Declared == [i \in 1..Len(Inputs) |-> InOrder(i, 1, ExifData)] \o <<>>

OutcomeOrderIndependent ==
    /\ pc = "returned" =>
        /\ todo = {}
        /\ ~Declared[fileId].exit
        /\ exifData = Declared[fileId].record
    /\ pc = "exited" /\ exitTag # "" => exitCode = 1 /\ Declared[fileId].exit
    /\ pc = "loop" /\ todo = {} => ~Declared[fileId].exit

\* a record with two different makes was returned
BothMakesReturned ==
    /\ pc = "returned"
    /\ exifData.Make # <<>> /\ exifData.LensMake # <<>>
    /\ exifData.Make # exifData.LensMake

====
